---- MODULE Spec2Model ----
(***************************************************************************)
(* SpeedHive throughput probes (src-tauri/src/lib.rs).                     *)
(*                                                                         *)
(* One session of download_speed_test or upload_speed_test: the spawned    *)
(* task, the upload progress-reporter task, the shared atomics, the wall   *)
(* clock and the sequence of events sent on the Tauri channel.             *)
(* Times are milliseconds, sizes are bytes.  The f64 rate fields (mbps,    *)
(* avg_mbps) of the events are not modelled.                               *)
(***************************************************************************)
EXTENDS Integers, Sequences, FiniteSets, TLC

VARIABLES
    kind,           \* which command was invoked: "download" or "upload"
    url,            \* argument url, a sequence of characters
    duration_ms,    \* argument duration_ms
    chunk_arg,      \* argument chunk_size (upload only)
    statuses,       \* the status codes the upload server answers with
    failure,        \* the error value behind the Error event, <<>> if none
    now,            \* the monotonic clock (Instant::now())
    start,          \* let start = Instant::now()
    pc,             \* position of the session task
    events,         \* everything sent on on_event, in order
    candidates,     \* download: the candidate list
    idx,            \* download: index of the candidate of the current iteration
    last_err,       \* download: Option<reqwest::Error>, <<>> is None
    has_stream,     \* download: stream.is_some()
    chosen,         \* download: index of the candidate whose stream is read, 0 if none
    pulled,         \* download: non-empty chunks the stream has yielded so far
    attempts,       \* download: what the network answered to each request, in order
    total_bytes,    \* download: total_bytes
    last_emit,      \* download: last_emit
    last_bytes,     \* download: last_bytes
    chunk_size,     \* upload: chunk_size after the clamp (chunk.len())
    request_bytes,  \* upload: the adaptive request size
    remaining,      \* upload: bytes the current body stream still has to yield, 0 without one
    total_sent,     \* upload: the shared AtomicU64
    done,           \* upload: the shared AtomicBool
    npolls,         \* upload: slices drawn one at a time from the body streams so far
    nwhole,         \* upload: body streams drained in one go so far
    nrejected,      \* upload: requests answered with a non-success status so far
    sent_before,    \* upload: total_sent when the current request began, 0 without one
    resp,           \* upload: what the last send().await returned, <<>> before it
    wake,           \* upload: when the session task's final sleep ends, 0 outside it
    rpc,            \* upload: position of the progress-reporter task
    rwake,          \* upload: when the reporter's sleep ends, 0 outside it
    r_bytes,        \* upload: reporter's local `bytes`, 0 outside its scope
    r_elapsed       \* upload: reporter's local `elapsed_ms`, 0 outside its scope

dlvars == <<candidates, idx, last_err, has_stream, chosen, pulled, attempts,
            total_bytes, last_emit, last_bytes>>
upvars == <<chunk_size, request_bytes, remaining, total_sent, done, npolls, nwhole,
            nrejected, sent_before, resp, wake>>
repvars == <<rpc, rwake, r_bytes, r_elapsed>>
args == <<kind, url, duration_ms, chunk_arg>>
env == <<statuses>>
vars == <<args, env, failure, now, start, pc, events, dlvars, upvars, repvars>>

----------------------------------------------------------------------------
(* Bounds of the exploration *)

\* the clock stops advancing freely here
MaxTime == 500
\* a download stream yields at most this many non-empty chunks
MaxChunks == 3
\* the body streams of an upload session yield at most this many slices in all
MaxPolls == 2
\* an error has at most this many nested causes
MaxCauses == 1
\* where the upload is followed up to its byte cap, at most this many body
\* streams are drained
CapWhole == 27

\* amounts by which the clock advances in one step
Ticks == {125, 250}
\* the length of a chunk a download stream yields
ChunkLens == {0, 1000}
\* HTTP status codes a server answers with
Statuses == {200, 404}
\* the arguments the command is invoked with
Urls == {<<>>, <<" ">>, <<"u">>}
Durations == {0, 500}
ChunkArgs == {100, 40000, 1048576000}

----------------------------------------------------------------------------
(* Program constants *)

EmitEveryMs == 250
MinDurationMs == 250
FinalSleepMs == 50
MinChunk == 8 * 1024
MaxChunk == 1024 * 1024
MinRequest == 64 * 1024
MaxRequest == 8 * 1024 * 1024
RequestFactor == 16
max_bytes == 200 * 1024 * 1024

HttpsFallback == <<"https://speed.cloudflare.com/__down?bytes=25000000">>
HttpFallback == <<"http://ipv4.download.thinkbroadband.com/10MB.zip">>

----------------------------------------------------------------------------
(* Pure helpers *)

Max(a, b) == IF a >= b THEN a ELSE b
Min(a, b) == IF a <= b THEN a ELSE b

\* Ord::clamp
Clamp(x, lo, hi) == IF x < lo THEN lo ELSE IF x > hi THEN hi ELSE x

IsWhitespace(c) == c \in {" ", "\t", "\n", "\r"}

\* str::trim: drop leading and trailing whitespace
RECURSIVE TrimStart(_)
TrimStart(s) ==
    IF s = <<>> THEN <<>>
    ELSE IF IsWhitespace(Head(s)) THEN TrimStart(Tail(s)) ELSE s

RECURSIVE TrimEnd(_)
TrimEnd(s) ==
    IF s = <<>> THEN <<>>
    ELSE IF IsWhitespace(s[Len(s)]) THEN TrimEnd(SubSeq(s, 1, Len(s) - 1)) ELSE s

Trim(s) == TrimEnd(TrimStart(s))

\* the candidate list with the user's URL after the fallbacks
CandidatesFallbacksFirst(u) ==
    <<HttpsFallback, HttpFallback>> \o (IF Trim(u) # <<>> THEN <<u>> ELSE <<>>)

\* lines 43-53: the candidate list of a download
Candidates(u) ==
    (IF Trim(u) # <<>> THEN <<u>> ELSE <<>>) \o <<HttpsFallback, HttpFallback>>

\* StatusCode::is_success
IsSuccess(status) == status >= 200 /\ status <= 299

\* An error value is the sequence of its messages, its own first and then
\* those of its chain of sources; tag and n tell the errors apart.
ErrorValue(tag, n, causes) == [k \in 1..(causes + 1) |-> <<tag, n, k>>]

\* format_error_with_chain: the message, then "\ncaused by: " and the
\* message of every source in turn
format_error_with_chain(err) ==
    [i \in 1..(2 * Len(err) - 1) |->
        IF i % 2 = 1 THEN err[(i + 1) \div 2] ELSE <<"\ncaused by: ">>]

\* Display of an error: its own message only
Display(err) == <<err[1]>>

----------------------------------------------------------------------------
(* Events *)

Started(u, d, c) ==
    [event |-> "started", url |-> u, duration_ms |-> d, chunk_size |-> c,
     elapsed_ms |-> 0, bytes |-> 0, message |-> <<>>]
Progress(e, b) ==
    [event |-> "progress", url |-> <<>>, duration_ms |-> 0, chunk_size |-> 0,
     elapsed_ms |-> e, bytes |-> b, message |-> <<>>]
Finished(e, b) ==
    [event |-> "finished", url |-> <<>>, duration_ms |-> 0, chunk_size |-> 0,
     elapsed_ms |-> e, bytes |-> b, message |-> <<>>]
ErrorEvent(m) ==
    [event |-> "error", url |-> <<>>, duration_ms |-> 0, chunk_size |-> 0,
     elapsed_ms |-> 0, bytes |-> 0, message |-> m]

\* Channel::send, once for each event of evs in turn
SendAll(evs) == events' = events \o evs
Send(ev) == SendAll(<<ev>>)

\* Instant::elapsed
Elapsed(since) == now - since

\* the deadline without its floor
stop_after_unfloored == duration_ms

\* Duration::from_millis(duration_ms.max(250))
stop_after == Max(duration_ms, MinDurationMs)

----------------------------------------------------------------------------
\* the task has been spawned with its arguments
Spawned ==
    /\ failure = <<>>
    /\ nwhole = 0
    /\ nrejected = 0
    /\ sent_before = 0
    /\ now = 0
    /\ start = 0
    /\ pc = "spawned"
    /\ events = <<>>
    /\ candidates = <<>>
    /\ idx = 0
    /\ last_err = <<>>
    /\ has_stream = FALSE
    /\ chosen = 0
    /\ pulled = 0
    /\ attempts = <<>>
    /\ total_bytes = 0
    /\ last_emit = 0
    /\ last_bytes = 0
    /\ chunk_size = 0
    /\ request_bytes = 0
    /\ remaining = 0
    /\ total_sent = 0
    /\ done = FALSE
    /\ npolls = 0
    /\ resp = <<>>
    /\ wake = 0
    /\ rpc = "unspawned"
    /\ rwake = 0
    /\ r_bytes = 0
    /\ r_elapsed = 0

Init ==
    /\ kind \in {"download", "upload"}
    /\ url \in (IF kind = "download" THEN Urls ELSE {<<"u">>})
    /\ duration_ms \in Durations
    /\ chunk_arg \in (IF kind = "upload" THEN ChunkArgs ELSE {0})
    /\ statuses = Statuses
    /\ Spawned

----------------------------------------------------------------------------
(* The clock.  The session starts at time 0; time then passes between any *)
(* two steps of the tasks.  Past MaxTime it advances only for the sleeps   *)
(* that are pending once the done flag is set.                             *)

SleepPending ==
    \/ pc = "final_sleep" /\ now < wake
    \/ rpc = "sleeping" /\ now < rwake

Tick ==
    /\ pc # "spawned"
    /\ \E d \in Ticks :
        /\ now + d <= MaxTime \/ (done /\ SleepPending)
        /\ now' = now + d
    /\ UNCHANGED <<args, env, failure, start, pc, events, dlvars, upvars, repvars>>

----------------------------------------------------------------------------
(* download_speed_test *)

\* lines 39-68: start, the candidate list, the HTTP client
DlStart ==
    /\ kind = "download"
    /\ pc = "spawned"
    /\ start' = now
    /\ candidates' = Candidates(url)
    /\ \E built \in BOOLEAN, causes \in 0..MaxCauses :
        IF built
        THEN /\ pc' = "next_candidate"
             /\ idx' = 1
             /\ UNCHANGED <<events, failure>>
        ELSE /\ failure' = ErrorValue("build", 0, causes)
             /\ Send(ErrorEvent(<<<<"Failed to build HTTP client:\n">>>>
                        \o format_error_with_chain(failure')))
             /\ pc' = "returned"
             /\ UNCHANGED idx
    /\ UNCHANGED <<args, env, now, last_err, has_stream, chosen, pulled, attempts,
                   total_bytes, last_emit, last_bytes, upvars, repvars>>

\* lines 101-108: no candidate gave a stream
NoStream(err) ==
    /\ Send(ErrorEvent(
            IF err # <<>>
            THEN <<<<"Request failed:\n">>>> \o format_error_with_chain(err)
            ELSE <<<<"Request failed: no URL candidates">>>>))
    /\ failure' = err
    /\ pc' = "returned"

\* the next candidate of the loop; Started names the URL asked for, not the
\* candidate
DlAttemptUserUrl ==
    /\ kind = "download"
    /\ pc = "next_candidate"
    /\ IF idx <= Len(candidates)
       THEN /\ Send(Started(url, duration_ms, 0))
            /\ pc' = "connecting"
            /\ UNCHANGED failure
       ELSE NoStream(last_err)
    /\ UNCHANGED <<args, env, now, start, dlvars, upvars, repvars>>

\* the next candidate of the loop; the request, and no Started
DlAttemptNoStarted ==
    /\ kind = "download"
    /\ pc = "next_candidate"
    /\ IF idx <= Len(candidates)
       THEN /\ pc' = "connecting"
            /\ UNCHANGED <<events, failure>>
       ELSE NoStream(last_err)
    /\ UNCHANGED <<args, env, now, start, dlvars, upvars, repvars>>

\* lines 75-81: the next candidate of the loop; Started, then the request
DlAttempt ==
    /\ kind = "download"
    /\ pc = "next_candidate"
    /\ IF idx <= Len(candidates)
       THEN /\ Send(Started(candidates[idx], duration_ms, 0))
            /\ pc' = "connecting"
            /\ UNCHANGED failure
       ELSE NoStream(last_err)
    /\ UNCHANGED <<args, env, now, start, dlvars, upvars, repvars>>

\* what client.get(&u).send().await returns
ConnectResults ==
    {[ok |-> FALSE, causes |-> c, status |-> 0] : c \in 0..MaxCauses}
        \cup {[ok |-> TRUE, causes |-> 0, status |-> s] : s \in Statuses}

\* only the first failure is kept
RememberFirst(prev, err) == IF prev = <<>> THEN err ELSE prev

\* line 84: last_err = Some(err)
Remember(prev, err) == err

\* lines 83-86: a transport failure; remember it and go on with the next candidate
OnConnectError(err) ==
    /\ last_err' = Remember(last_err, err)
    /\ IF idx < Len(candidates)
       THEN /\ idx' = idx + 1
            /\ pc' = "next_candidate"
            /\ UNCHANGED <<events, failure>>
       ELSE /\ NoStream(last_err')
            /\ UNCHANGED idx
    /\ UNCHANGED <<has_stream, chosen, total_bytes, last_emit, last_bytes>>

\* a response with a non-success status is taken for a transport failure
OnBadStatusNextCandidate(status) ==
    /\ IF idx < Len(candidates)
       THEN /\ idx' = idx + 1
            /\ pc' = "next_candidate"
            /\ UNCHANGED events
       ELSE /\ Send(ErrorEvent(<<<<"HTTP error from ">>, candidates[idx], <<": ">>,
                                <<"status", status>>>>))
            /\ pc' = "returned"
            /\ UNCHANGED idx
    /\ UNCHANGED <<failure, last_err, has_stream, chosen, total_bytes, last_emit, last_bytes>>

\* lines 89-94: a response with a non-success status
OnBadStatus(status) ==
    /\ Send(ErrorEvent(<<<<"HTTP error from ">>, candidates[idx], <<": ">>, <<"status", status>>>>))
    /\ pc' = "returned"
    /\ UNCHANGED <<failure, idx, last_err, has_stream, chosen, total_bytes, last_emit,
                   last_bytes>>

\* lines 96-98 and 109-117: the stream is chosen, the read loop is set up
OnStream ==
    /\ chosen' = idx
    /\ has_stream' = TRUE
    /\ total_bytes' = 0
    /\ last_emit' = now
    /\ last_bytes' = 0
    /\ pc' = "loop"
    /\ UNCHANGED <<failure, idx, last_err, events>>

\* lines 81-99: the request of the current candidate completes
DlConnected ==
    /\ kind = "download"
    /\ pc = "connecting"
    /\ \E r \in ConnectResults :
        /\ attempts' = Append(attempts, r)
        /\ IF ~r.ok THEN OnConnectError(ErrorValue("send", idx, r.causes))
           ELSE IF ~IsSuccess(r.status) THEN OnBadStatus(r.status)
           ELSE OnStream
    /\ UNCHANGED <<args, env, now, start, candidates, pulled, upvars, repvars>>

\* lines 158-166: the loop is left, Finished is sent
DlFinish ==
    /\ Send(Finished(Elapsed(start), total_bytes))
    /\ pc' = "returned"

\* the deadline has to be passed, not reached
DeadlineReachedStrict == Elapsed(start) > stop_after

\* the deadline is never looked at
DeadlineIgnored == FALSE

\* line 121: the deadline has been reached
DeadlineReached == Elapsed(start) >= stop_after

\* lines 119-123: the top of the read loop
DlLoopCheck ==
    /\ kind = "download"
    /\ pc = "loop"
    /\ IF DeadlineReached
       THEN DlFinish
       ELSE /\ pc' = "reading"
            /\ UNCHANGED events
    /\ UNCHANGED <<args, env, failure, now, start, dlvars, upvars, repvars>>

\* what stream.next().await returns
ReadResults ==
    {[item |-> "chunk", len |-> n, causes |-> 0] : n \in ChunkLens}
        \cup {[item |-> "err", len |-> 0, causes |-> c] : c \in 0..MaxCauses}
        \cup {[item |-> "none", len |-> 0, causes |-> 0]}

\* the interval is measured from the start of the session
EmitDueSinceStart == Elapsed(start) >= EmitEveryMs

\* line 141: time for a Progress event
EmitDue == Elapsed(last_emit) >= EmitEveryMs

\* a chunk arrived, and its length replaces the count
OnChunkNotSummed(len) ==
    /\ total_bytes' = len
    /\ pulled' = IF len > 0 THEN pulled + 1 ELSE pulled
    /\ IF EmitDue
       THEN /\ Send(Progress(Elapsed(start), total_bytes'))
            /\ last_emit' = now
            /\ last_bytes' = total_bytes'
       ELSE UNCHANGED <<events, last_emit, last_bytes>>
    /\ pc' = "loop"
    /\ UNCHANGED failure

\* lines 126-128 and 141-155: a chunk arrived
OnChunk(len) ==
    /\ total_bytes' = total_bytes + len
    /\ pulled' = IF len > 0 THEN pulled + 1 ELSE pulled
    /\ IF EmitDue
       THEN /\ Send(Progress(Elapsed(start), total_bytes'))
            /\ last_emit' = now
            /\ last_bytes' = total_bytes'
       ELSE UNCHANGED <<events, last_emit, last_bytes>>
    /\ pc' = "loop"
    /\ UNCHANGED failure

\* the stream failed, and the `return` is missing
OnReadErrorNoReturn(err) ==
    /\ Send(ErrorEvent(<<<<"Download failed: ">>>> \o Display(err)))
    /\ failure' = err
    /\ pc' = "loop"
    /\ UNCHANGED <<pulled, total_bytes, last_emit, last_bytes>>

\* lines 129-134: the stream failed
OnReadError(err) ==
    /\ Send(ErrorEvent(<<<<"Download failed: ">>>> \o Display(err)))
    /\ failure' = err
    /\ pc' = "returned"
    /\ UNCHANGED <<pulled, total_bytes, last_emit, last_bytes>>

\* lines 135-138: the stream ended
OnStreamEnd ==
    /\ DlFinish
    /\ UNCHANGED <<failure, pulled, total_bytes, last_emit, last_bytes>>

\* lines 125-156: stream.next() completes
DlRead ==
    /\ kind = "download"
    /\ pc = "reading"
    /\ \E r \in ReadResults :
        /\ r.item = "chunk" /\ r.len > 0 => pulled < MaxChunks
        /\ IF r.item = "chunk" THEN OnChunk(r.len)
           ELSE IF r.item = "err" THEN OnReadError(ErrorValue("read", pulled, r.causes))
           ELSE OnStreamEnd
    /\ UNCHANGED <<args, env, now, start, candidates, idx, last_err, has_stream, chosen,
                   attempts, upvars, repvars>>

----------------------------------------------------------------------------
(* upload_speed_test: the session task *)

\* the clamp without its lower bound
ClampChunkUpperOnly(c) == Min(c, MaxChunk)

\* line 200
ClampChunk(c) == Clamp(c, MinChunk, MaxChunk)

\* lines 238-239
InitialRequestBytes(c) == Clamp(c * RequestFactor, MinRequest, MaxRequest)

\* lines 200-246: the clamp, start, Started, the HTTP client, the shared
\* atomics, the first request size, the spawn of the reporter
UpStart ==
    /\ kind = "upload"
    /\ pc = "spawned"
    /\ chunk_size' = ClampChunk(chunk_arg)
    /\ start' = now
    /\ \E built \in BOOLEAN, causes \in 0..MaxCauses :
        IF built
        THEN /\ Send(Started(url, duration_ms, chunk_size'))
             /\ total_sent' = 0
             /\ done' = FALSE
             /\ request_bytes' = InitialRequestBytes(chunk_size')
             /\ rpc' = "check"
             /\ pc' = "upload_loop"
             /\ UNCHANGED failure
        ELSE /\ failure' = ErrorValue("build", 0, causes)
             /\ SendAll(<<Started(url, duration_ms, chunk_size'),
                          ErrorEvent(<<<<"Failed to build HTTP client:\n">>>>
                            \o format_error_with_chain(failure'))>>)
             /\ pc' = "returned"
             /\ UNCHANGED <<total_sent, done, request_bytes, rpc>>
    /\ UNCHANGED <<args, env, now, dlvars, remaining, npolls, nwhole, nrejected,
                   sent_before, resp, wake, rwake, r_bytes, r_elapsed>>

\* lines 339-342: the loop is left; the done flag, then the sleep
LeaveLoop ==
    /\ done' = TRUE
    /\ wake' = now + FinalSleepMs
    /\ pc' = "final_sleep"

\* the loop condition without the byte cap
KeepUploadingNoCap == Elapsed(start) < stop_after

\* line 275: the condition of the transfer loop
KeepUploading == Elapsed(start) < stop_after /\ total_sent < max_bytes

\* lines 275-319: the loop condition; a new body stream and its request
UpLoopCheck ==
    /\ kind = "upload"
    /\ pc = "upload_loop"
    /\ IF KeepUploading
       THEN /\ remaining' = request_bytes
            /\ sent_before' = total_sent
            /\ resp' = <<>>
            /\ pc' = "sending"
            /\ UNCHANGED <<done, wake>>
       ELSE /\ LeaveLoop
            /\ UNCHANGED <<remaining, sent_before, resp>>
    /\ UNCHANGED <<args, env, failure, now, start, events, dlvars, chunk_size,
                   request_bytes, total_sent, npolls, nwhole, nrejected, repvars>>

\* line 291
Take(current) == Min(current, chunk_size)

\* the counter is increased by the length of the buffer, whatever the slice
CountedWholeChunk(take) == chunk_size

\* line 297: what the counter is increased by for a slice of `take` bytes
Counted(take) == take

\* lines 285-309: reqwest polls the body stream for its next slice
UpPollBody ==
    /\ kind = "upload"
    /\ pc = "sending"
    /\ remaining # 0
    /\ npolls < MaxPolls
    /\ remaining' = remaining - Take(remaining)
    /\ total_sent' = total_sent + Counted(Take(remaining))
    /\ npolls' = npolls + 1
    /\ UNCHANGED <<args, env, failure, now, start, pc, events, dlvars, chunk_size,
                   request_bytes, done, nwhole, nrejected, sent_before, resp, wake,
                   repvars>>

\* lines 285-309, over and over: what the counter gains while the stream
\* yields slices until `current` bytes are used up and it returns None
RECURSIVE Drained(_)
Drained(current) ==
    IF current = 0 THEN 0
    ELSE Counted(Take(current)) + Drained(current - Take(current))

\* lines 285-309: reqwest polls the body stream until it is exhausted,
\* with no step of another task in between; the polls of UpPollBody taken
\* together, a step of CapSpec only
UpPollRest ==
    /\ kind = "upload"
    /\ pc = "sending"
    /\ remaining # 0
    /\ nwhole < CapWhole
    /\ remaining' = 0
    /\ total_sent' = total_sent + Drained(remaining)
    /\ nwhole' = nwhole + 1
    /\ UNCHANGED <<args, env, failure, now, start, pc, events, dlvars, chunk_size,
                   request_bytes, done, npolls, nrejected, sent_before, resp, wake,
                   repvars>>

\* what client.post(&url)...send().await returns
SendResults ==
    {[ok |-> FALSE, status |-> 0]} \cup {[ok |-> TRUE, status |-> s] : s \in statuses}

\* a transport failure is reported and ends the session
OnSendErrorReported ==
    /\ Send(ErrorEvent(<<<<"Upload failed: ">>>>))
    /\ done' = TRUE
    /\ pc' = "returned"
    /\ UNCHANGED <<request_bytes, wake>>

\* lines 321-325: a transport failure ends the loop
OnSendError ==
    /\ LeaveLoop
    /\ UNCHANGED <<request_bytes, events>>

\* the halving without its floor
HalvedNoFloor(rb) == rb \div 2

\* line 332
Halved(rb) == Max(MinRequest, rb \div 2)

\* the retry on rejection without its way out at the floor
OnRejectedRetryAtFloor ==
    /\ request_bytes' = Halved(request_bytes)
    /\ pc' = "upload_loop"
    /\ UNCHANGED <<done, wake, events>>

\* lines 328-336: a non-success status; a smaller request, or the end of the loop
OnRejected ==
    /\ IF request_bytes > MinRequest
       THEN /\ request_bytes' = Halved(request_bytes)
            /\ pc' = "upload_loop"
            /\ UNCHANGED <<done, wake>>
       ELSE /\ LeaveLoop
            /\ UNCHANGED request_bytes
    /\ UNCHANGED events

\* line 337: a success status; the next iteration
OnAccepted ==
    /\ pc' = "upload_loop"
    /\ UNCHANGED <<request_bytes, done, wake, events>>

\* lines 312-337: the request completes; the body stream is dropped
UpResponse ==
    /\ kind = "upload"
    /\ pc = "sending"
    /\ \E r \in SendResults :
        /\ resp' = IF r.ok THEN <<"status", r.status>> ELSE <<"err">>
        /\ IF ~r.ok THEN OnSendError
           ELSE IF ~IsSuccess(r.status) THEN OnRejected
           ELSE OnAccepted
        /\ nrejected' = IF r.ok /\ ~IsSuccess(r.status) THEN nrejected + 1
                                                          ELSE nrejected
    /\ remaining' = 0
    /\ sent_before' = 0
    /\ UNCHANGED <<args, env, failure, now, start, dlvars, chunk_size, total_sent, npolls,
                   nwhole, repvars>>

\* lines 342-355: the sleep is over, Finished is sent
UpFinish ==
    /\ kind = "upload"
    /\ pc = "final_sleep"
    /\ now >= wake
    /\ Send(Finished(Elapsed(start), total_sent))
    /\ pc' = "returned"
    /\ wake' = 0
    /\ UNCHANGED <<args, env, failure, now, start, dlvars, chunk_size, request_bytes,
                   remaining, total_sent, done, npolls, nwhole, nrejected, sent_before,
                   resp, repvars>>

----------------------------------------------------------------------------
(* upload_speed_test: the progress-reporter task *)

\* lines 249-254: the top of the loop; the done flag, then the sleep
RepCheck ==
    /\ rpc = "check"
    /\ IF done
       THEN /\ rpc' = "exited"
            /\ UNCHANGED rwake
       ELSE /\ rpc' = "sleeping"
            /\ rwake' = now + EmitEveryMs
    /\ UNCHANGED <<args, env, failure, now, start, pc, events, dlvars, upvars, r_bytes, r_elapsed>>

\* lines 254-258: the sleep is over; the done flag again
RepWake ==
    /\ rpc = "sleeping"
    /\ now >= rwake
    /\ rpc' = IF done THEN "exited" ELSE "sample"
    /\ rwake' = 0
    /\ UNCHANGED <<args, env, failure, now, start, pc, events, dlvars, upvars, r_bytes, r_elapsed>>

\* the reporter reads only what the request in flight has added
RepSampleRequestOnly ==
    /\ rpc = "sample"
    /\ r_bytes' = total_sent - sent_before
    /\ r_elapsed' = Elapsed(start)
    /\ rpc' = "send"
    /\ UNCHANGED <<args, env, failure, now, start, pc, events, dlvars, upvars, rwake>>

\* lines 260-264: the counter and the clock are read
RepSample ==
    /\ rpc = "sample"
    /\ r_bytes' = total_sent
    /\ r_elapsed' = Elapsed(start)
    /\ rpc' = "send"
    /\ UNCHANGED <<args, env, failure, now, start, pc, events, dlvars, upvars, rwake>>

\* lines 266-271: Progress is sent; the locals of the iteration go out of scope
RepSend ==
    /\ rpc = "send"
    /\ Send(Progress(r_elapsed, r_bytes))
    /\ rpc' = "check"
    /\ r_bytes' = 0
    /\ r_elapsed' = 0
    /\ UNCHANGED <<args, env, failure, now, start, pc, dlvars, upvars, rwake>>

----------------------------------------------------------------------------
Next ==
    \/ Tick
    \/ DlStart
    \/ DlAttempt
    \/ DlConnected
    \/ DlLoopCheck
    \/ DlRead
    \/ UpStart
    \/ UpLoopCheck
    \/ UpPollBody
    \/ UpResponse
    \/ UpFinish
    \/ RepCheck
    \/ RepWake
    \/ RepSample
    \/ RepSend

Spec == Init /\ [][Next]_vars

\* Every task is scheduled, every await returns and time advances.
Fairness ==
    /\ WF_vars(Tick)
    /\ WF_vars(DlStart) /\ WF_vars(DlAttempt) /\ WF_vars(DlConnected)
    /\ WF_vars(DlLoopCheck) /\ WF_vars(DlRead)
    /\ WF_vars(UpStart) /\ WF_vars(UpLoopCheck) /\ WF_vars(UpResponse) /\ WF_vars(UpFinish)
    /\ WF_vars(RepCheck) /\ WF_vars(RepWake) /\ WF_vars(RepSample) /\ WF_vars(RepSend)

\* the upload followed up to its byte cap: a server that accepts every
\* request until it is full, a chunk size whose request size does not divide
\* the cap, the shortest duration, and whole bodies read in one step
CapChunkArgs == {500000}

CapInit ==
    /\ kind \in {"download", "upload"}
    /\ url \in (IF kind = "download" THEN Urls ELSE {<<"u">>})
    /\ duration_ms \in (IF kind = "download" THEN Durations ELSE {0})
    /\ chunk_arg \in (IF kind = "upload" THEN CapChunkArgs ELSE {0})
    /\ statuses = {200}
    /\ Spawned

\* lines 312-328: the server, having taken all but one largest request of
\* the cap, begins to answer every request with a non-success status
ServerFull ==
    /\ kind = "upload"
    /\ statuses = {200}
    /\ total_sent >= max_bytes - MaxRequest
    /\ statuses' = {404}
    /\ UNCHANGED <<args, failure, now, start, pc, events, dlvars, upvars, repvars>>

CapNext ==
    \/ Next
    \/ UpPollRest
    \/ ServerFull

CapSpec == CapInit /\ [][CapNext]_vars

LiveSpec == Init /\ [][Next]_vars /\ Fairness

----------------------------------------------------------------------------
(* Properties *)

\* the positions of the events of the given kinds
EventsOf(names) == {i \in DOMAIN events : events[i].event \in names}
Terminals == EventsOf({"finished", "error"})
LastEvent == events[Len(events)]

\* the Error event of a failed client construction
IsBuildError(ev) ==
    ev.event = "error" /\ ev.message[1] = <<"Failed to build HTTP client:\n">>

\* C1: a session never has more than one terminal event (Finished or Error),
\* and its task has returned exactly when it has sent that one terminal event.
C1_ExactlyOneTerminal ==
    /\ Cardinality(Terminals) <= 1
    /\ pc = "returned" <=> Cardinality(Terminals) = 1

\* a download that ended in Error on a read failure, after two candidates
\* failed to connect and chunks were read from the third
C1_Witness ==
    /\ pc = "returned"
    /\ Len(attempts) = 3
    /\ pulled > 0
    /\ LastEvent.event = "error"
    /\ Cardinality(Terminals) = 1

\* C2 as stated: Started is sent exactly once and is the first event of the
\* session.
C2_StartedOnceFirst ==
    events # <<>> =>
        /\ events[1].event = "started"
        /\ Cardinality(EventsOf({"started"})) = 1

\* C2 amended: an upload sends Started exactly once, first.  A download sends
\* one Started per candidate attempted, before that candidate's request, so
\* one to three of them; its first event is Started unless the HTTP client
\* could not be built, and then the Error is its only event.
C2_StartedPerAttempt ==
    /\ kind = "upload" /\ events # <<>> =>
            /\ events[1].event = "started"
            /\ EventsOf({"started"}) = {1}
    /\ kind = "download" =>
            /\ Cardinality(EventsOf({"started"}))
                    = Len(attempts) + (IF pc = "connecting" THEN 1 ELSE 0)
            /\ Cardinality(EventsOf({"started"})) <= 3
            /\ events # <<>> =>
                    \/ events[1].event = "started"
                    \/ Len(events) = 1 /\ IsBuildError(events[1])
            /\ \A i \in Terminals :
                    \/ \E j \in EventsOf({"started"}) : j < i
                    \/ IsBuildError(events[i])

\* a download that has sent Started for its third candidate
C2_Witness ==
    /\ kind = "download"
    /\ pc = "connecting"
    /\ Cardinality(EventsOf({"started"})) = 3

\* C3: in an upload session no event follows Finished.
C3_NothingAfterFinished ==
    kind = "upload" => \A i \in EventsOf({"finished"}) : i = Len(events)

\* C4: every session eventually sends its terminal event and its session
\* task returns, and the reporter task of an upload eventually exits.
C4_Terminates ==
    <>(/\ pc = "returned"
       /\ Terminals # {}
       /\ rpc \in {"unspawned", "exited"})

\* a download stopped by the deadline while its stream still had chunks to give
C4_Witness ==
    /\ kind = "download"
    /\ pc = "returned"
    /\ LastEvent.event = "finished"
    /\ LastEvent.elapsed_ms >= 500
    /\ duration_ms = 500
    /\ pulled > 0 /\ pulled < MaxChunks

IsStarted(ev) == ev.event = "started"
IsProgress(ev) == ev.event = "progress"

\* the url has a character that is not whitespace
NonBlank(u) == \E i \in DOMAIN u : ~IsWhitespace(u[i])

\* the order in which a download is to try its endpoints
ExpectedOrder ==
    (IF NonBlank(url) THEN <<url>> ELSE <<>>) \o <<HttpsFallback, HttpFallback>>

TransportFailure(r) == ~r.ok
BadStatus(r) == r.ok /\ (r.status < 200 \/ r.status > 299)
GoodResponse(r) == r.ok /\ r.status >= 200 /\ r.status <= 299

\* C5: the k-th Started of a download names the k-th endpoint of the order
\* (user URL if non-blank, HTTPS fallback, HTTP fallback); an endpoint is
\* tried only after all earlier ones failed in transport; the first one that
\* answers with a success status ends the selection and is the one read.
C5_CandidatesInOrder ==
    kind = "download" =>
        LET st == SelectSeq(events, IsStarted) IN
        /\ Len(st) <= Len(ExpectedOrder)
        /\ \A k \in DOMAIN st :
                /\ st[k].url = ExpectedOrder[k]
                /\ \A j \in 1..(k - 1) :
                        j <= Len(attempts) /\ TransportFailure(attempts[j])
        /\ \A j \in DOMAIN attempts :
                GoodResponse(attempts[j]) =>
                    /\ j = Len(attempts)
                    /\ Len(st) = j
                    /\ chosen = j
                    /\ has_stream
        /\ pc \in {"loop", "reading"} => chosen # 0
        /\ chosen # 0 => /\ chosen <= Len(attempts)
                         /\ GoodResponse(attempts[chosen])

\* the stream of the HTTP fallback is read after the user's URL and the
\* HTTPS fallback failed to connect
C5_Witness ==
    /\ kind = "download"
    /\ url = <<"u">>
    /\ chosen = 3
    /\ pc = "reading"
    /\ pulled > 0

\* C6: once a download candidate has answered with a non-success status, it
\* is the last one attempted, the session has returned, its last event is
\* Error, sent right after that candidate's Started, and there is no
\* Progress, no Finished and no stream.
C6_BadStatusEndsSession ==
    kind = "download" =>
        \A j \in DOMAIN attempts :
            BadStatus(attempts[j]) =>
                /\ j = Len(attempts)
                /\ pc = "returned"
                /\ Cardinality(EventsOf({"started"})) = j
                /\ EventsOf({"progress", "finished"}) = {}
                /\ EventsOf({"error"}) = {Len(events)}
                /\ events[Len(events) - 1].event = "started"
                /\ events[Len(events) - 1].url = ExpectedOrder[j]
                /\ ~has_stream
                /\ chosen = 0

\* the first of three candidates answered with a non-success status
C6_Witness ==
    /\ kind = "download"
    /\ Len(candidates) = 3
    /\ Len(attempts) = 1
    /\ BadStatus(attempts[1])
    /\ pc = "returned"

\* all candidates of the download have been tried and failed in transport
AllFailed ==
    /\ attempts # <<>>
    /\ Len(attempts) = Len(ExpectedOrder)
    /\ \A j \in DOMAIN attempts : TransportFailure(attempts[j])

\* C7: when every candidate failed in transport, the session has returned
\* with Error as its last event, whose message is "Request failed:" followed
\* by the message of the last candidate's error and of each of its causes;
\* the "no URL candidates" message is never sent for a non-empty list.
C7_LastTransportError ==
    kind = "download" =>
        /\ AllFailed =>
                LET n == Len(attempts)
                    m == LastEvent.message IN
                /\ pc = "returned"
                /\ LastEvent.event = "error"
                /\ Terminals = {Len(events)}
                /\ m[1] = <<"Request failed:\n">>
                /\ Len(m) = 2 * (attempts[n].causes + 1)
                /\ \A k \in 1..(attempts[n].causes + 1) : m[2 * k] = <<"send", n, k>>
        /\ \A i \in EventsOf({"error"}) :
                events[i].message = <<<<"Request failed: no URL candidates">>>>
                    => candidates = <<>>

\* three candidates failed, the last with a cause and the earlier ones without
C7_Witness ==
    /\ kind = "download"
    /\ AllFailed
    /\ Len(attempts) = 3
    /\ attempts[1].causes = 0
    /\ attempts[2].causes = 0
    /\ attempts[3].causes = 1
    /\ pc = "returned"

\* C8: across consecutive Progress events of a download, elapsed_ms is
\* strictly increasing and bytes is non-decreasing.
C8_DownloadProgressMonotone ==
    kind = "download" =>
        LET pr == SelectSeq(events, IsProgress) IN
        \A k \in 1..(Len(pr) - 1) :
            /\ pr[k].elapsed_ms < pr[k + 1].elapsed_ms
            /\ pr[k].bytes <= pr[k + 1].bytes

\* a download with two Progress events, the second with more bytes
C8_Witness ==
    /\ kind = "download"
    /\ LET pr == SelectSeq(events, IsProgress) IN
        /\ Len(pr) >= 2
        /\ pr[1].bytes < pr[2].bytes

\* C9: an upload whose HTTP client was built sends no Error; a transport
\* failure of a request ends the transfer loop; once the session has
\* returned, its last word is a Finished with the bytes counted.
C9_UploadNeverErrors ==
    kind = "upload" /\ rpc # "unspawned" =>
        /\ EventsOf({"error"}) = {}
        /\ resp = <<"err">> => done /\ pc \in {"final_sleep", "returned"}
        /\ pc = "returned" =>
                \E i \in EventsOf({"finished"}) :
                    /\ Terminals = {i}
                    /\ events[i].bytes = total_sent

\* an upload that finished after a transport failure, with bytes counted
C9_Witness ==
    /\ kind = "upload"
    /\ pc = "returned"
    /\ resp = <<"err">>
    /\ total_sent > 0
    /\ EventsOf({"finished"}) # {}

\* the request size an upload is to start with, for the chunk size asked for
ExpectedFirstRequest ==
    LET c == IF chunk_arg < 8192 THEN 8192
             ELSE IF chunk_arg > 1048576 THEN 1048576 ELSE chunk_arg
        r == 16 * c IN
    IF r < 65536 THEN 65536 ELSE IF r > 8388608 THEN 8388608 ELSE r

Rejected(r) == Len(r) = 2 /\ (r[2] < 200 \/ r[2] > 299)
Accepted(r) == Len(r) = 2 /\ r[2] >= 200 /\ r[2] <= 299

\* a step in which a request of the upload completes
ResponseStep == kind = "upload" /\ pc = "sending" /\ pc' # "sending"

\* C10: the adaptive request size of an upload is always within
\* [64 KiB, 8 MiB]; it starts at 16 times the clamped chunk size, clamped
\* into that range; it changes only when a request is answered with a
\* non-success status, and then to the larger of its half and 64 KiB; a
\* success status leaves it as it is.
C10_AdaptiveRequestSize ==
    /\ [](kind = "upload" /\ rpc # "unspawned" =>
            request_bytes >= 65536 /\ request_bytes <= 8388608)
    /\ [][/\ pc = "spawned" /\ rpc' # "unspawned" =>
                request_bytes' = ExpectedFirstRequest
          /\ pc # "spawned" /\ request_bytes' # request_bytes =>
                /\ ResponseStep
                /\ Rejected(resp')
                /\ request_bytes' * 2 \in {request_bytes, request_bytes - 1}
                        \/ (request_bytes' = 65536 /\ request_bytes < 131072)
          /\ ResponseStep /\ Rejected(resp') /\ request_bytes > 65536 =>
                request_bytes' < request_bytes
          /\ ResponseStep /\ Accepted(resp') =>
                request_bytes' = request_bytes
         ]_vars

\* an upload whose request size came down to the floor from 80000
C10_Witness ==
    /\ kind = "upload"
    /\ chunk_size = 40000
    /\ request_bytes = 65536
    /\ Rejected(resp)
    /\ pc = "upload_loop"

\* the requests of an upload that were answered with a non-success status,
\* and the one in flight
RejectedOrInFlight == nrejected + (IF pc = "sending" THEN 1 ELSE 0)

\* C11: an upload gets at most 8 non-success answers, so a server that
\* rejects every request sees at most 8 requests: a rejection at a size above
\* 64 KiB halves the size (not below 64 KiB) and goes back to the loop
\* condition, a rejection at 64 KiB leaves the loop for the final sleep and
\* Finished, and no request is started once the deadline has been reached.
C11_RejectionsBounded ==
    /\ [](RejectedOrInFlight <= 8)
    /\ [][/\ ResponseStep /\ Rejected(resp') /\ request_bytes > 65536 =>
                /\ request_bytes' = Max(65536, request_bytes \div 2)
                /\ pc' = "upload_loop"
                /\ ~done'
          /\ ResponseStep /\ Rejected(resp') /\ request_bytes <= 65536 =>
                /\ pc' = "final_sleep"
                /\ done'
                /\ nrejected' = nrejected + 1
          /\ pc = "upload_loop" /\ now - start >= Max(duration_ms, 250) =>
                pc' # "sending"
          /\ pc = "final_sleep" /\ pc' # pc =>
                pc' = "returned" /\ LastEvent'.event = "finished"
         ]_vars

\* an upload of 1 MiB chunks whose eight requests, 8 MiB down to 64 KiB, were
\* all rejected, and which then sent Finished
C11_Witness ==
    /\ kind = "upload"
    /\ chunk_size = 1048576
    /\ nrejected = 8
    /\ request_bytes = 65536
    /\ pc = "returned"
    /\ LastEvent.event = "finished"

\* the chunk size asked for, brought into [8 KiB, 1 MiB]
ExpectedChunk ==
    IF chunk_arg < 8192 THEN 8192
    ELSE IF chunk_arg > 1048576 THEN 1048576 ELSE chunk_arg

\* C12: once an upload has started, its chunk size is the size asked for
\* brought into [8 KiB, 1 MiB]: 8 KiB for a smaller one, 1 MiB for a larger
\* one, the size itself otherwise.  The Started event, the first event of the
\* upload, reports this value, and no slice drawn from a body stream is
\* longer.
C12_ChunkClamped ==
    /\ [](kind = "upload" /\ pc # "spawned" =>
            /\ chunk_size = ExpectedChunk
            /\ chunk_size >= 8192 /\ chunk_size <= 1048576
            /\ events[1].event = "started"
            /\ events[1].chunk_size = ExpectedChunk)
    /\ [][npolls' = npolls + 1 =>
            /\ total_sent' - total_sent <= ExpectedChunk
            /\ remaining - remaining' <= ExpectedChunk
            /\ total_sent' > total_sent
         ]_vars

\* an upload asked for 1,048,576,000-byte chunks that has drawn two slices of
\* 1 MiB
C12_Witness ==
    /\ kind = "upload"
    /\ chunk_arg = 1048576000
    /\ npolls = 2
    /\ total_sent = 2097152
    /\ events[1].chunk_size = 1048576

\* the deadline of a session, in ms after its start
ExpectedDeadline == IF duration_ms < 250 THEN 250 ELSE duration_ms

\* C13 as stated: the Finished event of a session started with a duration
\* below 250 ms has an elapsed time of at least 250 ms.
C13_FinishedAtLeast250 ==
    duration_ms < 250 =>
        \A i \in EventsOf({"finished"}) : events[i].elapsed_ms >= 250

\* C13 amended: the deadline of both probers is the larger of the duration
\* asked for and 250 ms.  The download leaves its read loop at the loop
\* condition only when that much time has passed since the start, and pulls
\* the next chunk only before; the upload starts a request only before, and
\* leaves its loop at the loop condition only then or at the byte cap.  A
\* Finished with a smaller elapsed time comes from a session that ended
\* early: a download whose stream ended, an upload whose last request failed
\* in transport or was rejected at 64 KiB, or that reached the byte cap.
C13_DeadlineFloored ==
    /\ [](kind = "upload" =>
            \A i \in EventsOf({"finished"}) :
                events[i].elapsed_ms < ExpectedDeadline =>
                    \/ resp = <<"err">>
                    \/ Rejected(resp) /\ request_bytes = 65536
                    \/ total_sent >= 209715200)
    /\ [][/\ pc = "loop" /\ pc' = "returned" =>
                /\ now - start >= ExpectedDeadline
                /\ LastEvent'.event = "finished"
                /\ LastEvent'.elapsed_ms >= ExpectedDeadline
          /\ pc = "loop" /\ pc' = "reading" => now - start < ExpectedDeadline
          /\ pc = "upload_loop" /\ pc' = "sending" => now - start < ExpectedDeadline
          /\ pc = "upload_loop" /\ pc' = "final_sleep" =>
                now - start >= ExpectedDeadline \/ total_sent >= 209715200
          /\ kind = "download" /\ pc' = "returned" /\ pc # "returned"
                /\ LastEvent'.event = "finished"
                /\ LastEvent'.elapsed_ms < ExpectedDeadline => pc = "reading"
         ]_vars

\* an upload with duration 0 whose last request was accepted and which sent
\* Finished, so one that left its loop at the deadline of 250 ms
C13_Witness ==
    /\ kind = "upload"
    /\ duration_ms = 0
    /\ Accepted(resp)
    /\ pc = "returned"
    /\ \E i \in EventsOf({"finished"}) : events[i].elapsed_ms >= 250

\* message m has the message of every error of the chain err, each one after
\* the first right behind a "caused by:" line
HasCausalChain(m, err) ==
    \A k \in DOMAIN err :
        \E j \in DOMAIN m :
            /\ m[j] = err[k]
            /\ k > 1 => j > 1 /\ m[j - 1] = <<"\ncaused by: ">>

\* C14: the message of every Error event has the whole causal chain of the
\* failure behind it: the failure's own message, and one "caused by:" line
\* for each of its causes.
C14_ErrorHasCausalChain ==
    \A i \in EventsOf({"error"}) : HasCausalChain(events[i].message, failure)

\* C15: a download that has selected a stream ends as its read loop ends.  A
\* read that fails sends Error ("Download failed: ...") and no Finished,
\* whatever Progress events went before; the end of the stream and the
\* deadline each send Finished and no Error, and the bytes of that Finished
\* are the sum of the lengths of the chunks received (each non-empty chunk of
\* the model has 1000 bytes).
C15_TerminalByLoopEnd ==
    /\ [](kind = "download" /\ has_stream =>
            /\ total_bytes = 1000 * pulled
            /\ pc = "returned" =>
                    IF failure # <<>>
                    THEN /\ LastEvent.event = "error"
                         /\ LastEvent.message[1] = <<"Download failed: ">>
                         /\ EventsOf({"finished"}) = {}
                    ELSE /\ LastEvent.event = "finished"
                         /\ LastEvent.bytes = 1000 * pulled
                         /\ EventsOf({"error"}) = {})
    /\ [][/\ pc = "reading" /\ pc' = "returned" /\ failure' # <<>> =>
                LastEvent'.event = "error" /\ total_bytes' = total_bytes
          /\ pc = "reading" /\ pc' = "returned" /\ failure' = <<>> =>
                LastEvent'.event = "finished" /\ LastEvent'.bytes = total_bytes
          /\ pc = "loop" /\ pc' = "returned" =>
                LastEvent'.event = "finished" /\ LastEvent'.bytes = total_bytes
          /\ pc = "reading" /\ pc' = "loop" =>
                /\ total_bytes' - total_bytes \in {0, 1000}
                /\ Cardinality(Terminals') = 0
         ]_vars

\* a download that reported 2000 bytes in a Progress event and then ended in
\* Error on a failed read
C15_Witness ==
    /\ kind = "download"
    /\ has_stream
    /\ pc = "returned"
    /\ failure # <<>>
    /\ LastEvent.event = "error"
    /\ \E i \in EventsOf({"progress"}) : events[i].bytes = 2000

\* C16: the read loop of a download looks at the deadline at the top of every
\* iteration.  A chunk is pulled only from there and only while less than
\* max(duration, 250) ms have passed since the start of the session; once
\* that much time has passed, the step from the top of the loop sends Finished
\* with the bytes counted so far and the task returns, without a pull.  The
\* start is taken when the task begins, before any candidate is tried, and
\* never again.
C16_DeadlineAtLoopTop ==
    [][/\ kind = "download" /\ pc = "loop" /\ pc' # pc
            /\ now - start >= ExpectedDeadline =>
                /\ pc' = "returned"
                /\ events' = Append(events, LastEvent')
                /\ LastEvent'.event = "finished"
                /\ LastEvent'.bytes = total_bytes
                /\ LastEvent'.elapsed_ms = now - start
                /\ total_bytes' = total_bytes
                /\ pulled' = pulled
       /\ kind = "download" /\ pc' = "reading" /\ pc # pc' =>
                /\ pc = "loop"
                /\ now - start < ExpectedDeadline
                /\ total_bytes' = total_bytes
                /\ events' = events
       /\ kind = "download" /\ total_bytes' # total_bytes => pc = "reading"
       /\ pc = "spawned" /\ pc' # pc => start' = now /\ attempts' = <<>>
       /\ pc # "spawned" => start' = start
      ]_vars

\* a download with duration 500 that read three non-empty chunks from its
\* third candidate and sent Finished 500 ms after the start
C16_Witness ==
    /\ kind = "download"
    /\ duration_ms = 500
    /\ Len(attempts) = 3
    /\ has_stream
    /\ pulled = 3
    /\ pc = "returned"
    /\ LastEvent.event = "finished"
    /\ LastEvent.elapsed_ms = 500

\* C17: a download sends Started with a candidate's URL and the duration
\* asked for in the step that issues the request to that candidate, before
\* the request completes, also when the request then fails; Started is sent
\* at no other point, so the Started events are as many as the candidates
\* attempted (requests completed, and the one in flight), the j-th of them
\* naming the j-th candidate.
C17_StartedBeforeRequest ==
    /\ [](kind = "download" =>
            LET st == SelectSeq(events, IsStarted) IN
            /\ Len(st) = Len(attempts) + (IF pc = "connecting" THEN 1 ELSE 0)
            /\ \A j \in DOMAIN st :
                    st[j].url = candidates[j] /\ st[j].duration_ms = duration_ms
            /\ pc = "connecting" =>
                    LastEvent.event = "started" /\ LastEvent.url = candidates[idx])
    /\ [][/\ kind = "download" /\ pc' = "connecting" /\ pc # pc' =>
                /\ events' = Append(events, LastEvent')
                /\ LastEvent'.event = "started"
                /\ LastEvent'.url = candidates[idx]
                /\ attempts' = attempts
                /\ Len(attempts) = idx - 1
          /\ attempts' # attempts =>
                /\ pc = "connecting"
                /\ Len(attempts') = Len(attempts) + 1
                /\ LastEvent.event = "started"
                /\ LastEvent.url = candidates[Len(attempts')]
          /\ kind = "download"
                /\ Len(SelectSeq(events', IsStarted)) # Len(SelectSeq(events, IsStarted)) =>
                    pc = "next_candidate" /\ pc' = "connecting"
         ]_vars

\* a download all three of whose candidates failed in transport: three
\* Started events, then the Error
C17_Witness ==
    /\ kind = "download"
    /\ pc = "returned"
    /\ Len(attempts) = 3
    /\ \A j \in DOMAIN attempts : TransportFailure(attempts[j])
    /\ Len(SelectSeq(events, IsStarted)) = 3
    /\ Len(events) = 4
    /\ events[4].event = "error"

\* C18: in an upload the byte counter never goes down, and of two Progress
\* events the later one has at least the bytes and at least the elapsed time
\* of the earlier one; no Progress has more bytes than the counter holds; the
\* bytes of Finished are at least those of every Progress of the session,
\* wherever in the session the reporter sent it.
C18_UploadBytesMonotone ==
    /\ [](kind = "upload" =>
            LET pr == SelectSeq(events, IsProgress) IN
            /\ \A k \in 1..(Len(pr) - 1) :
                    /\ pr[k].bytes <= pr[k + 1].bytes
                    /\ pr[k].elapsed_ms <= pr[k + 1].elapsed_ms
            /\ \A k \in DOMAIN pr : pr[k].bytes <= total_sent
            /\ \A i \in EventsOf({"finished"}) :
                    \A k \in DOMAIN pr : pr[k].bytes <= events[i].bytes)
    /\ [][total_sent' >= total_sent /\ r_bytes' <= total_sent']_vars

\* an upload with two Progress events, the second with more bytes, and a
\* Finished with more bytes still
C18_Witness ==
    /\ kind = "upload"
    /\ pc = "returned"
    /\ LET pr == SelectSeq(events, IsProgress) IN
            /\ Len(pr) = 2
            /\ pr[1].bytes < pr[2].bytes
            /\ \E i \in EventsOf({"finished"}) : pr[2].bytes < events[i].bytes

\* C19: while an upload request is in flight, what its body stream has added
\* to the byte counter is the request size less what the stream has left, so
\* exactly the request size once the stream is exhausted.  Every slice drawn
\* is non-empty and at most the chunk size, is shorter than the chunk size
\* only if it is the last one, and increases the counter by its length in the
\* step in which it is drawn; nothing else changes the counter, and the
\* response of the server, whichever it is, leaves it as it is.
C19_BodySlices ==
    /\ [](kind = "upload" /\ pc = "sending" =>
            /\ remaining >= 0 /\ remaining <= request_bytes
            /\ total_sent - sent_before = request_bytes - remaining)
    /\ [][/\ npolls' = npolls + 1 =>
                /\ pc = "sending" /\ pc' = "sending"
                /\ remaining - remaining' > 0
                /\ remaining - remaining' <= chunk_size
                /\ remaining - remaining' < chunk_size => remaining' = 0
                /\ total_sent' = total_sent + (remaining - remaining')
                /\ request_bytes' = request_bytes
          /\ total_sent' # total_sent => npolls' = npolls + 1
          /\ ResponseStep =>
                /\ total_sent' = total_sent
                /\ total_sent - sent_before = request_bytes - remaining
         ]_vars

\* the body of a 65536-byte request of an upload with 40000-byte chunks,
\* exhausted by a slice of 40000 and one of 25536 bytes
C19_Witness ==
    /\ kind = "upload"
    /\ pc = "sending"
    /\ chunk_size = 40000
    /\ request_bytes = 65536
    /\ remaining = 0
    /\ npolls = 2
    /\ total_sent = 65536

\* C20 as stated: no request of an upload starts once the byte counter has
\* reached 200 MiB, and in every state the counter is below 200 MiB plus the
\* current request size.
C20_BelowCapPlusCurrentRequest ==
    kind = "upload" /\ pc # "spawned" =>
        /\ pc = "sending" => sent_before < 209715200
        /\ total_sent < 209715200 + request_bytes

\* C20 amended: no request of an upload starts once the byte counter has
\* reached 200 MiB, and nothing but that test, before each request, keeps the
\* counter down: a body begun below the cap may be drawn in full.  While a
\* request is in flight the counter is below 200 MiB plus the size of that
\* request, and in every state below 200 MiB + 8 MiB; once a rejection has
\* halved the request size the counter may be 200 MiB plus the new size, or
\* more.  The bytes of Finished are the counter, so may exceed 200 MiB.
C20_CapAtRequestStart ==
    /\ [](kind = "upload" /\ pc # "spawned" =>
            /\ pc = "sending" =>
                    /\ sent_before < 209715200
                    /\ total_sent <= sent_before + request_bytes
                    /\ total_sent < 209715200 + request_bytes
            /\ total_sent < 209715200 + 8388608
            /\ \A i \in EventsOf({"finished"}) : events[i].bytes = total_sent)
    /\ [][/\ pc = "upload_loop" /\ total_sent >= 209715200 => pc' # "sending"
          /\ pc = "upload_loop" /\ pc' = "sending" =>
                total_sent < 209715200 /\ sent_before' = total_sent
          /\ pc = "sending" /\ pc' = "sending" /\ remaining' = 0 /\ remaining # 0 =>
                total_sent' = sent_before + request_bytes
         ]_vars

\* an upload of 8,000,000-byte requests that sent Finished with 216,000,000
\* bytes, its 27th request having begun at 208,000,000
C20_Witness ==
    /\ kind = "upload"
    /\ pc = "returned"
    /\ request_bytes = 8000000
    /\ total_sent = 216000000
    /\ \E i \in EventsOf({"finished"}) : events[i].bytes > 209715200
====
